---- MODULE Spec2Model ----
(***************************************************************************)
(* Smart Parking Backend (src/app.py): the per-space record store, the     *)
(* session log and the five HTTP handlers that read and write them.        *)
(*                                                                         *)
(* Every handler is a sequence of store operations on a local copy of the  *)
(* record (find_one, then update_one / insert_one).  A worker runs one     *)
(* handler at a time; the steps of different workers interleave at the     *)
(* store operations (Spec), or each handler runs alone from its first      *)
(* store operation to its last (SpecAtomic).  The clock is read by         *)
(* now_ts() and may advance between two readings of the same handler.      *)
(***************************************************************************)
EXTENDS Integers, Sequences, FiniteSets, TLC

\* ------------------------------------------------------------ bounds
\* One parking space (records of different node_ids share nothing but the
\* clock, the uuid source and the session log), two request workers, one
\* distance reading other than the default 0.0.  SensorUpdate.timestamp is
\* never read by the code and is left out of the requests.
Nodes == {"A1"}
Procs == {"w1", "w2"}
Distances == {7}

\* seconds the clock may advance one by one inside one reservation period
MaxUnitTicks == 2
\* times the clock may advance by a whole reservation period
MaxJumps == 1
\* sensor updates accepted in one run (bounds the history and session logs)
MaxUpdates == 4
\* uuid4() calls in one run
MaxTokens == 2
\* the same, where handlers interleave: sensor updates plus uuid4() calls,
\* and seconds the clock may advance one by one
MaxRaceOps == 3
MaxRaceTicks == 0

\* ------------------------------------------------------------ constants
RESERVATION_DURATION == 30

\* Python's None; timestamps and tokens are >= 1, so 0 is free, and the
\* code's truth tests (`if not ts`, `and node["reservation_expiry"]`)
\* treat 0 and None alike.
None == 0

VARIABLES
    parking_collection,   \* node_id -> record, for the node_ids stored
    sessions_collection,  \* sequence of session records, in insertion order
    history_collection,   \* number of raw readings appended (write-only log)
    clock,                \* time.time(), in whole seconds
    uuid_counter,         \* number of uuid4() tokens issued so far
    response,             \* HTTP status of the request answered last (0: none yet)
    pc,                   \* per worker: the handler step it is at
    frame                 \* per worker: the handler's local variables

vars == <<parking_collection, sessions_collection, history_collection,
          clock, uuid_counter, response, pc, frame>>

\* ------------------------------------------------------------ time
\* The values now_ts() may return when the previous reading of the same
\* handler returned t: the same second, or the next one.
now_ts(t) ==
    IF (t - 1) % RESERVATION_DURATION < MaxUnitTicks THEN {t, t + 1} ELSE {t}

ts_to_readable(ts) ==
    IF ts = None THEN None ELSE <<"UTC", ts>>

\* ------------------------------------------------------------ records
create_default_node(node_id, t) ==
    [ node_id              |-> node_id,
      sensor_status        |-> "FREE",
      distance_cm          |-> 0,
      reserved             |-> FALSE,
      violation            |-> FALSE,
      reservation_start    |-> None,
      reservation_expiry   |-> None,
      admin_mode           |-> "NORMAL",
      qr_token             |-> None,
      checked_in           |-> FALSE,
      active_session_start |-> None,
      last_update          |-> t ]

\* parking_collection.update_one({"node_id": node_id}, {"$set": fields}):
\* one atomic write of the named fields of the stored document; no upsert.
update_one(coll, node_id, fields) ==
    IF node_id \in DOMAIN coll
    THEN LET doc == coll[node_id]
         IN  [coll EXCEPT ![node_id] =
                 [f \in DOMAIN doc |->
                     IF f \in DOMAIN fields THEN fields[f] ELSE doc[f]]]
    ELSE coll

\* find_one, and create_default_node + insert_one when nothing is found.
\* The lookup and the insert are taken as one step: two workers never
\* insert the same node_id twice in this model.
find_or_create(coll, node_id, t) ==
    IF node_id \in DOMAIN coll
    THEN coll
    ELSE [n \in DOMAIN coll \cup {node_id} |->
            IF n = node_id THEN create_default_node(node_id, t) ELSE coll[n]]

\* ------------------------------------------------------------ core logic
\* compute_final with the RESERVED test placed before the VIOLATION test.
compute_final_reserved_first(node) ==
    IF node.admin_mode = "MAINTENANCE" THEN "MAINTENANCE"
    ELSE IF node.reserved THEN "RESERVED"
    ELSE IF node.reserved /\ ~node.checked_in /\ node.sensor_status = "OCCUPIED"
         THEN "VIOLATION"
    ELSE node.sensor_status

compute_final(node) ==
    IF node.admin_mode = "MAINTENANCE" THEN "MAINTENANCE"
    ELSE IF node.reserved /\ ~node.checked_in /\ node.sensor_status = "OCCUPIED"
         THEN "VIOLATION"
    ELSE IF node.reserved THEN "RESERVED"
    ELSE node.sensor_status

\* The test of enforce_expiry, on the handler's local copy, at reading t.
expiry_due(node, t) ==
    /\ node.reserved
    /\ node.reservation_expiry # None
    /\ t >= node.reservation_expiry

\* enforce_expiry clearing the token but not the reservation itself.
enforce_expiry_keeps_reservation(coll, node, t1, t2) ==
    IF expiry_due(node, t1)
    THEN update_one(coll, node.node_id,
            [ qr_token           |-> None,
              violation          |-> FALSE,
              checked_in         |-> FALSE,
              last_update        |-> t2 ])
    ELSE coll

\* enforce_expiry(node): t1 is the reading compared with the expiry, t2 the
\* one stored as last_update.  It writes the store and leaves the caller's
\* local copy `node` as it was.
enforce_expiry(coll, node, t1, t2) ==
    IF expiry_due(node, t1)
    THEN update_one(coll, node.node_id,
            [ reserved           |-> FALSE,
              reservation_start  |-> None,
              reservation_expiry |-> None,
              qr_token           |-> None,
              violation          |-> FALSE,
              checked_in         |-> FALSE,
              last_update        |-> t2 ])
    ELSE coll

\* update_node with the violation flag computed without checked_in.
update_node_fields_ignores_check_in(node, data, t1, t2, t3) ==
    LET prev    == node.sensor_status
        opens   == prev = "FREE" /\ data.sensor_status = "OCCUPIED"
        closes  == prev = "OCCUPIED" /\ data.sensor_status = "FREE"
        started == IF opens THEN t1 ELSE node.active_session_start
    IN  [ node |->
            [node EXCEPT
               !.active_session_start = IF closes THEN None ELSE started,
               !.sensor_status = data.sensor_status,
               !.distance_cm   = data.distance_cm,
               !.last_update   = t3,
               !.violation     = /\ node.admin_mode = "NORMAL"
                                 /\ node.reserved
                                 /\ data.sensor_status = "OCCUPIED"],
          sessions |->
            IF closes /\ started # None
            THEN << [ node_id          |-> data.node_id,
                      start_time       |-> started,
                      end_time         |-> t1,
                      duration_seconds |-> t2 - started ] >>
            ELSE << >> ]

\* update_node closing the session on every reading of an occupied space.
update_node_fields_logs_occupied(node, data, t1, t2, t3) ==
    LET prev    == node.sensor_status
        opens   == prev = "FREE" /\ data.sensor_status = "OCCUPIED"
        closes  == prev = "OCCUPIED"
        started == IF opens THEN t1 ELSE node.active_session_start
    IN  [ node |->
            [node EXCEPT
               !.active_session_start = IF closes THEN None ELSE started,
               !.sensor_status = data.sensor_status,
               !.distance_cm   = data.distance_cm,
               !.last_update   = t3,
               !.violation     = /\ node.admin_mode = "NORMAL"
                                 /\ node.reserved
                                 /\ ~node.checked_in
                                 /\ data.sensor_status = "OCCUPIED"],
          sessions |->
            IF closes /\ started # None
            THEN << [ node_id          |-> data.node_id,
                      start_time       |-> started,
                      end_time         |-> t1,
                      duration_seconds |-> t2 - started ] >>
            ELSE << >> ]

\* update_node writing the session record with start and end exchanged.
update_node_fields_swaps_times(node, data, t1, t2, t3) ==
    LET prev    == node.sensor_status
        opens   == prev = "FREE" /\ data.sensor_status = "OCCUPIED"
        closes  == prev = "OCCUPIED" /\ data.sensor_status = "FREE"
        started == IF opens THEN t1 ELSE node.active_session_start
    IN  [ node |->
            [node EXCEPT
               !.active_session_start = IF closes THEN None ELSE started,
               !.sensor_status = data.sensor_status,
               !.distance_cm   = data.distance_cm,
               !.last_update   = t3,
               !.violation     = /\ node.admin_mode = "NORMAL"
                                 /\ node.reserved
                                 /\ ~node.checked_in
                                 /\ data.sensor_status = "OCCUPIED"],
          sessions |->
            IF closes /\ started # None
            THEN << [ node_id          |-> data.node_id,
                      start_time       |-> t1,
                      end_time         |-> started,
                      duration_seconds |-> t2 - started ] >>
            ELSE << >> ]

\* update_node_fields without line 149: the session start survives the
\* OCCUPIED -> FREE update.
update_node_fields_keeps_session(node, data, t1, t2, t3) ==
    LET prev    == node.sensor_status
        opens   == prev = "FREE" /\ data.sensor_status = "OCCUPIED"
        closes  == prev = "OCCUPIED" /\ data.sensor_status = "FREE"
        started == IF opens THEN t1 ELSE node.active_session_start
    IN  [ node |->
            [node EXCEPT
               !.active_session_start = started,
               !.sensor_status = data.sensor_status,
               !.distance_cm   = data.distance_cm,
               !.last_update   = t3,
               !.violation     = /\ node.admin_mode = "NORMAL"
                                 /\ node.reserved
                                 /\ ~node.checked_in
                                 /\ data.sensor_status = "OCCUPIED"],
          sessions |->
            IF closes /\ started # None
            THEN << [ node_id          |-> data.node_id,
                      start_time       |-> started,
                      end_time         |-> t1,
                      duration_seconds |-> t2 - started ] >>
            ELSE << >> ]

\* update_node, lines 134-162, on the local copy `node`: t1 is the reading
\* that opens or ends a session, t2 the one duration_seconds is taken from,
\* t3 the one stored as last_update.  Returns the local copy as written
\* back by `$set: node` and the session records inserted.
update_node_fields(node, data, t1, t2, t3) ==
    LET prev    == node.sensor_status
        opens   == prev = "FREE" /\ data.sensor_status = "OCCUPIED"
        closes  == prev = "OCCUPIED" /\ data.sensor_status = "FREE"
        started == IF opens THEN t1 ELSE node.active_session_start
    IN  [ node |->
            [node EXCEPT
               !.active_session_start = IF closes THEN None ELSE started,
               !.sensor_status = data.sensor_status,
               !.distance_cm   = data.distance_cm,
               !.last_update   = t3,
               !.violation     = /\ node.admin_mode = "NORMAL"
                                 /\ node.reserved
                                 /\ ~node.checked_in
                                 /\ data.sensor_status = "OCCUPIED"],
          sessions |->
            IF closes /\ started # None
            THEN << [ node_id          |-> data.node_id,
                      start_time       |-> started,
                      end_time         |-> t1,
                      duration_seconds |-> t2 - started ] >>
            ELSE << >> ]

\* reserve_space, lines 191-198: the fields set when req.reserved is true.
reserve_fields(t1, t2, t3, token) ==
    [ reserved           |-> TRUE,
      reservation_start  |-> t1,
      reservation_expiry |-> t2 + RESERVATION_DURATION,
      qr_token           |-> token,
      checked_in         |-> FALSE,
      last_update        |-> t3 ]

\* reserve_space, lines 203-210: the fields set when req.reserved is false.
release_fields(t) ==
    [ reserved           |-> FALSE,
      reservation_start  |-> None,
      reservation_expiry |-> None,
      qr_token           |-> None,
      violation          |-> FALSE,
      checked_in         |-> FALSE,
      last_update        |-> t ]

\* admin_maintenance leaving the reserved flag as it is.
maintenance_fields_keeps_reserved(t) ==
    [ admin_mode  |-> "MAINTENANCE",
      qr_token    |-> None,
      violation   |-> FALSE,
      last_update |-> t ]

\* admin_maintenance that also ends the open session.
maintenance_fields_ends_session(t) ==
    [ admin_mode  |-> "MAINTENANCE",
      reserved    |-> FALSE,
      qr_token    |-> None,
      violation   |-> FALSE,
      active_session_start |-> None,
      last_update |-> t ]

\* maintenance_fields without line 253: the token survives maintenance.
maintenance_fields_keeps_token(t) ==
    [ admin_mode  |-> "MAINTENANCE",
      reserved    |-> FALSE,
      violation   |-> FALSE,
      last_update |-> t ]

\* admin_maintenance, lines 250-256.
maintenance_fields(t) ==
    [ admin_mode  |-> "MAINTENANCE",
      reserved    |-> FALSE,
      qr_token    |-> None,
      violation   |-> FALSE,
      last_update |-> t ]

\* admin_resume, lines 264-267.
resume_fields(t) ==
    [ admin_mode  |-> "NORMAL",
      last_update |-> t ]

\* get_status, lines 225-240: the view of one local copy.
status_view(node) ==
    [ final_status         |-> compute_final(node),
      sensor_status        |-> node.sensor_status,
      distance_cm          |-> node.distance_cm,
      reserved             |-> node.reserved,
      violation            |-> node.violation,
      admin_mode           |-> node.admin_mode,
      qr_token             |-> node.qr_token,
      reservation_expiry   |-> node.reservation_expiry,
      server_timestamp     |-> node.last_update,
      last_update_readable |-> ts_to_readable(node.last_update) ]

\* ------------------------------------------------------------ state
EmptyMap == [n \in {} |-> None]

\* A worker that is between two requests.
Ready(p) == pc[p] = "idle"

InFlight(op) == Cardinality({q \in Procs : ~Ready(q) /\ frame[q].op = op})

SensorUpdates ==
    [node_id : Nodes, sensor_status : {"FREE", "OCCUPIED"}, distance_cm : Distances]

ReservationRequests == [node_id : Nodes, reserved : BOOLEAN]

Init ==
    /\ parking_collection = EmptyMap
    /\ sessions_collection = << >>
    /\ history_collection = 0
    /\ clock = 1
    /\ uuid_counter = 0
    /\ response = 0
    /\ pc = [p \in Procs |-> "idle"]
    /\ frame = [p \in Procs |-> [op |-> "none"]]

\* ------------------------------------------------------------ POST /api/node/update
\* lines 127-130
update_node_find(p, data) ==
    /\ Ready(p)
    /\ history_collection + InFlight("update_node") < MaxUpdates
    /\ LET coll == find_or_create(parking_collection, data.node_id, clock)
       IN  /\ parking_collection' = coll
           /\ frame' = [frame EXCEPT ![p] =
                  [ op |-> "update_node", data |-> data,
                    node |-> coll[data.node_id], expired |-> FALSE ]]
    /\ pc' = [pc EXCEPT ![p] = "update_expiry"]
    /\ UNCHANGED <<sessions_collection, history_collection, clock, uuid_counter>>
    /\ UNCHANGED response

\* line 132
update_node_expiry(p) ==
    /\ pc[p] = "update_expiry"
    /\ LET node == frame[p].node
           due  == expiry_due(node, clock)
       IN  \E t2 \in now_ts(clock) :
             /\ due \/ t2 = clock
             /\ parking_collection' =
                    enforce_expiry(parking_collection, node, clock, t2)
             /\ clock' = t2
             /\ frame' = [frame EXCEPT ![p].expired = due]
    /\ pc' = [pc EXCEPT ![p] = "update_apply"]
    /\ UNCHANGED <<sessions_collection, history_collection, uuid_counter>>
    /\ UNCHANGED response

\* lines 134-173
update_node_apply(p) ==
    /\ pc[p] = "update_apply"
    /\ \E t2 \in now_ts(clock) : \E t3 \in now_ts(t2) :
         LET data == frame[p].data
             r    == update_node_fields(frame[p].node, data, clock, t2, t3)
         IN  /\ parking_collection' =
                    update_one(parking_collection, data.node_id, r.node)
             /\ sessions_collection' = sessions_collection \o r.sessions
             /\ history_collection' = history_collection + 1
             /\ clock' = t3
             /\ frame' = [frame EXCEPT ![p] = [op |-> "none"]]
    /\ pc' = [pc EXCEPT ![p] = "idle"]
    /\ UNCHANGED uuid_counter
    /\ response' = 200

\* ------------------------------------------------------------ POST /api/reserve
\* lines 180-183
reserve_space_find(p, req) ==
    /\ Ready(p)
    /\ req.reserved => uuid_counter + InFlight("reserve_space") < MaxTokens
    /\ LET coll == find_or_create(parking_collection, req.node_id, clock)
       IN  /\ parking_collection' = coll
           /\ frame' = [frame EXCEPT ![p] =
                  [ op |-> "reserve_space", req |-> req,
                    node |-> coll[req.node_id] ]]
    /\ pc' = [pc EXCEPT ![p] = "reserve_check"]
    /\ UNCHANGED <<sessions_collection, history_collection, clock, uuid_counter>>
    /\ UNCHANGED response

\* reserve_space_raise with the maintenance test placed after the release
\* write of lines 201-212.
reserve_space_raise_after_write(p) ==
    /\ pc[p] = "reserve_check"
    /\ frame[p].node.admin_mode = "MAINTENANCE"
    /\ parking_collection' =
           update_one(parking_collection, frame[p].req.node_id,
               release_fields(clock))
    /\ pc' = [pc EXCEPT ![p] = "idle"]
    /\ frame' = [frame EXCEPT ![p] = [op |-> "none"]]
    /\ UNCHANGED <<sessions_collection, history_collection, clock, uuid_counter>>
    /\ response' = 400

\* lines 185-186: raise HTTPException(400, "Node in maintenance")
reserve_space_raise(p) ==
    /\ pc[p] = "reserve_check"
    /\ frame[p].node.admin_mode = "MAINTENANCE"
    /\ pc' = [pc EXCEPT ![p] = "idle"]
    /\ frame' = [frame EXCEPT ![p] = [op |-> "none"]]
    /\ UNCHANGED <<parking_collection, sessions_collection, history_collection,
                   clock, uuid_counter>>
    /\ response' = 400

\* lines 188-214
reserve_space_write(p) ==
    /\ pc[p] = "reserve_check"
    /\ frame[p].node.admin_mode # "MAINTENANCE"
    /\ LET req == frame[p].req
       IN  IF req.reserved
           THEN \E t2 \in now_ts(clock) : \E t3 \in now_ts(t2) :
                  /\ parking_collection' =
                         update_one(parking_collection, req.node_id,
                             reserve_fields(clock, t2, t3, uuid_counter + 1))
                  /\ uuid_counter' = uuid_counter + 1
                  /\ clock' = t3
           ELSE /\ parking_collection' =
                       update_one(parking_collection, req.node_id,
                           release_fields(clock))
                /\ UNCHANGED <<uuid_counter, clock>>
    /\ pc' = [pc EXCEPT ![p] = "idle"]
    /\ frame' = [frame EXCEPT ![p] = [op |-> "none"]]
    /\ UNCHANGED <<sessions_collection, history_collection>>
    /\ response' = 200

\* ------------------------------------------------------------ GET /api/parking/status
\* lines 221-222: the cursor holds the documents as they were found.
get_status_find(p) ==
    /\ Ready(p)
    /\ pc' = [pc EXCEPT ![p] = "status_loop"]
    /\ frame' = [frame EXCEPT ![p] =
           [ op |-> "get_status", cursor |-> parking_collection,
             out |-> EmptyMap ]]
    /\ UNCHANGED <<parking_collection, sessions_collection, history_collection,
                   clock, uuid_counter>>
    /\ UNCHANGED response

\* lines 222-240: one turn of the loop.
get_status_node(p) ==
    /\ pc[p] = "status_loop"
    /\ \E n \in DOMAIN frame[p].cursor \ DOMAIN frame[p].out :
         LET node == frame[p].cursor[n]
         IN  \E t2 \in now_ts(clock) :
               /\ expiry_due(node, clock) \/ t2 = clock
               /\ parking_collection' =
                      enforce_expiry(parking_collection, node, clock, t2)
               /\ clock' = t2
               /\ frame' = [frame EXCEPT ![p].out =
                      [m \in DOMAIN @ \cup {n} |->
                          IF m = n THEN status_view(node) ELSE @[m]]]
    /\ UNCHANGED <<sessions_collection, history_collection, uuid_counter, pc>>
    /\ UNCHANGED response

\* line 241: return out, once the cursor is exhausted.
get_status_return(p) ==
    /\ pc[p] = "status_loop"
    /\ DOMAIN frame[p].out = DOMAIN frame[p].cursor
    /\ pc' = [pc EXCEPT ![p] = "idle"]
    /\ frame' = [frame EXCEPT ![p] = [op |-> "none"]]
    /\ UNCHANGED <<parking_collection, sessions_collection, history_collection,
                   clock, uuid_counter>>
    /\ response' = 200

\* ------------------------------------------------------------ admin controls
admin_maintenance(node_id) ==
    /\ parking_collection' =
           update_one(parking_collection, node_id, maintenance_fields(clock))
    /\ UNCHANGED <<sessions_collection, history_collection, clock,
                   uuid_counter, pc, frame>>
    /\ response' = 200

admin_resume(node_id) ==
    /\ parking_collection' =
           update_one(parking_collection, node_id, resume_fields(clock))
    /\ UNCHANGED <<sessions_collection, history_collection, clock,
                   uuid_counter, pc, frame>>
    /\ response' = 200

\* checkIn / applyCheckIn of the specification (sections 4.1 and 4.2); the
\* handler is not part of src/app.py, which only declares and reads
\* checked_in.  One reading `now` of the clock; applyExpiry is enforce_expiry.
\* The answers 404, 409 and 403 stand for the error kinds NotFound,
\* AlreadyCheckedIn and InvalidToken.  checkin_time is not a field of the
\* records create_default_node builds and is not kept.
check_in(node_id, token) ==
    /\ UNCHANGED <<sessions_collection, history_collection, clock,
                   uuid_counter, pc, frame>>
    /\ IF node_id \notin DOMAIN parking_collection
       THEN /\ response' = 404
            /\ UNCHANGED parking_collection
       ELSE LET node == parking_collection[node_id]
            IN  IF expiry_due(node, clock) \/ ~node.reserved
                THEN /\ response' = 404
                     /\ parking_collection' =
                          enforce_expiry(parking_collection, node, clock, clock)
                ELSE IF node.checked_in
                THEN /\ response' = 409
                     /\ UNCHANGED parking_collection
                ELSE IF token # node.qr_token
                THEN /\ response' = 403
                     /\ UNCHANGED parking_collection
                ELSE /\ response' = 200
                     /\ parking_collection' =
                          update_one(parking_collection, node_id,
                                     [ checked_in  |-> TRUE,
                                       last_update |-> clock ])

\* ------------------------------------------------------------ the clock
clock_second ==
    /\ (clock - 1) % RESERVATION_DURATION < MaxUnitTicks
    /\ clock' = clock + 1
    /\ UNCHANGED <<parking_collection, sessions_collection, history_collection,
                   uuid_counter, pc, frame>>
    /\ UNCHANGED response

clock_period ==
    /\ (clock - 1) \div RESERVATION_DURATION < MaxJumps
    /\ clock' = clock + RESERVATION_DURATION
    /\ UNCHANGED <<parking_collection, sessions_collection, history_collection,
                   uuid_counter, pc, frame>>
    /\ UNCHANGED response

\* ------------------------------------------------------------ specifications
\* No other worker is inside a handler.
Alone(p) == \A q \in Procs \ {p} : Ready(q)

Quiet == \A q \in Procs : Ready(q)

\* Handlers interleave at their store operations.
RaceRoom ==
    history_collection + uuid_counter + InFlight("update_node")
      + Cardinality({q \in Procs : /\ ~Ready(q)
                                   /\ frame[q].op = "reserve_space"
                                   /\ frame[q].req.reserved})
      < MaxRaceOps

RaceClock == (clock - 1) % RESERVATION_DURATION <= MaxRaceTicks

Next ==
    \/ \E p \in Procs : \E data \in SensorUpdates :
          RaceRoom /\ update_node_find(p, data)
    \/ \E p \in Procs : update_node_expiry(p) /\ RaceClock'
    \/ \E p \in Procs : update_node_apply(p) /\ RaceClock'
    \/ \E p \in Procs : \E req \in ReservationRequests :
          (req.reserved => RaceRoom) /\ reserve_space_find(p, req)
    \/ \E p \in Procs : reserve_space_raise(p)
    \/ \E p \in Procs : reserve_space_write(p) /\ RaceClock'
    \/ \E p \in Procs : get_status_find(p)
    \/ \E p \in Procs : get_status_node(p) /\ RaceClock'
    \/ \E p \in Procs : get_status_return(p)
    \/ \E n \in Nodes : admin_maintenance(n)
    \/ \E n \in Nodes : admin_resume(n)
    \/ clock_period

Spec == Init /\ [][Next]_vars

\* Each handler runs from its first store operation to its last with no
\* step of another handler in between.  The clock advances by seconds
\* meanwhile, and by a whole reservation period only between two handlers.
NextAtomic ==
    \/ \E p \in Procs : \E data \in SensorUpdates :
          Alone(p) /\ update_node_find(p, data)
    \/ \E p \in Procs : Alone(p) /\ update_node_expiry(p)
    \/ \E p \in Procs : Alone(p) /\ update_node_apply(p)
    \/ \E p \in Procs : \E req \in ReservationRequests :
          Alone(p) /\ reserve_space_find(p, req)
    \/ \E p \in Procs : Alone(p) /\ reserve_space_raise(p)
    \/ \E p \in Procs : Alone(p) /\ reserve_space_write(p)
    \/ \E p \in Procs : Alone(p) /\ get_status_find(p)
    \/ \E p \in Procs : Alone(p) /\ get_status_node(p)
    \/ \E p \in Procs : Alone(p) /\ get_status_return(p)
    \/ \E n \in Nodes : Quiet /\ admin_maintenance(n)
    \/ \E n \in Nodes : Quiet /\ admin_resume(n)
    \/ clock_second
    \/ Quiet /\ clock_period

SpecAtomic == Init /\ [][NextAtomic]_vars

\* The handlers of src/app.py one at a time, together with the check-in
\* operation of the specification.
NextCheckIn ==
    \/ NextAtomic
    \/ \E n \in Nodes : \E token \in 1..MaxTokens : Quiet /\ check_in(n, token)

SpecCheckIn == Init /\ [][NextCheckIn]_vars

\* ------------------------------------------------------------ properties
\* The workers that are inside get_status, and those whose loop is over:
\* their `out` is the mapping the read returns.
InStatus(p) == frame[p].op = "get_status"

StatusComplete(p) ==
    InStatus(p) /\ DOMAIN frame[p].out = DOMAIN frame[p].cursor

Stored == DOMAIN parking_collection

\* C1: in every view of a status read, final_status is MAINTENANCE if the
\* view's admin_mode is MAINTENANCE; else VIOLATION if it is reserved, not
\* checked in and its sensor_status is OCCUPIED; else RESERVED if it is
\* reserved; else its sensor_status.  (The view carries no checked_in: it is
\* the one of the document the view was projected from.)
C1_FinalStatusPriority ==
    \A p \in Procs : InStatus(p) =>
      \A n \in DOMAIN frame[p].out :
        LET v          == frame[p].out[n]
            checked_in == frame[p].cursor[n].checked_in
        IN  /\ v.admin_mode = "MAINTENANCE" => v.final_status = "MAINTENANCE"
            /\ ( /\ v.admin_mode # "MAINTENANCE"
                 /\ v.reserved /\ ~checked_in
                 /\ v.sensor_status = "OCCUPIED" )
               => v.final_status = "VIOLATION"
            /\ ( /\ v.admin_mode # "MAINTENANCE"
                 /\ v.reserved
                 /\ ~(~checked_in /\ v.sensor_status = "OCCUPIED") )
               => v.final_status = "RESERVED"
            /\ (v.admin_mode # "MAINTENANCE" /\ ~v.reserved)
               => v.final_status = v.sensor_status

\* A completed read returns MAINTENANCE for a space that is reserved and
\* OCCUPIED as well.
C1_Witness ==
    \E p \in Procs : StatusComplete(p) /\
      \E n \in DOMAIN frame[p].out :
        /\ frame[p].out[n].admin_mode = "MAINTENANCE"
        /\ frame[p].out[n].reserved
        /\ frame[p].out[n].sensor_status = "OCCUPIED"
        /\ frame[p].out[n].final_status = "MAINTENANCE"

\* C2: when a status read completes, the reserved, reservation_expiry,
\* qr_token and final_status it returns for a space are those of the stored
\* record as it then stands.
C2_ViewMatchesStore ==
    \A p \in Procs : StatusComplete(p) =>
      \A n \in DOMAIN frame[p].out :
        LET v == frame[p].out[n]
            r == parking_collection[n]
        IN  /\ v.reserved = r.reserved
            /\ v.reservation_expiry = r.reservation_expiry
            /\ v.qr_token = r.qr_token
            /\ v.final_status = compute_final(r)

\* The reservation fields of a stored record are all cleared.
ReservationCleared(r) ==
    /\ ~r.reserved
    /\ r.reservation_start = None
    /\ r.reservation_expiry = None
    /\ r.qr_token = None
    /\ ~r.checked_in

\* C3: an operation that touches a reserved space at now >= reservation_expiry
\* (a sensor update, or a turn of the status read's loop) leaves the stored
\* record with its reservation fields cleared when it completes.
C3_ExpiredTouchClears ==
    [][ \A p \in Procs :
          /\ ( /\ pc[p] = "update_apply" /\ pc'[p] = "idle"
               /\ frame[p].expired )
             => ReservationCleared(parking_collection'[frame[p].data.node_id])
          /\ \A n \in Stored :
               ( /\ pc[p] = "status_loop"
                 /\ n \in DOMAIN frame[p].cursor
                 /\ n \notin DOMAIN frame[p].out
                 /\ n \in DOMAIN frame'[p].out
                 /\ expiry_due(frame[p].cursor[n], clock) )
               => ReservationCleared(parking_collection'[n])
      ]_vars

\* C4: a sensor update reporting OCCUPIED that is processed at
\* now >= reservation_expiry stores violation = false (so that later status
\* reads, which return the stored violation, cannot report one that stems
\* from the stale reservation).
C4_StaleReservationNoViolation ==
    [][ \A p \in Procs :
          ( /\ pc[p] = "update_apply" /\ pc'[p] = "idle"
            /\ frame[p].expired
            /\ frame[p].data.sensor_status = "OCCUPIED" )
          => ~parking_collection'[frame[p].data.node_id].violation
      ]_vars

\* C5 (I1): in every stored record reservation_expiry is set if and only if
\* reserved is true.
C5_ExpiryIffReserved ==
    \A n \in Stored :
      (parking_collection[n].reservation_expiry # None)
        <=> parking_collection[n].reserved

\* C6 (I3): in every stored record, under any interleaving of the handlers'
\* store operations, qr_token is set if and only if reserved is true.
C6_TokenIffReserved ==
    \A n \in Stored :
      (parking_collection[n].qr_token # None) <=> parking_collection[n].reserved

\* A reservation that was made and then cleared by admin_maintenance.
C6_Witness ==
    \E n \in Stored :
      /\ parking_collection[n].admin_mode = "MAINTENANCE"
      /\ parking_collection[n].reservation_start # None
      /\ ~parking_collection[n].reserved
      /\ parking_collection[n].qr_token = None

\* C7 (I4): in every stored record active_session_start is set only if
\* sensor_status is OCCUPIED.
C7_SessionOnlyWhileOccupied ==
    \A n \in Stored :
      parking_collection[n].active_session_start # None
        => parking_collection[n].sensor_status = "OCCUPIED"

\* A space that is FREE again after an occupancy whose session was logged.
C7_Witness ==
    \E n \in Stored :
      /\ parking_collection[n].sensor_status = "FREE"
      /\ parking_collection[n].active_session_start = None
      /\ \E i \in DOMAIN sessions_collection :
           sessions_collection[i].node_id = n

\* C8: the sensor update that takes a space with an open session from
\* OCCUPIED to FREE appends exactly one session record, for that space, whose
\* start_time is the session start stored by the FREE -> OCCUPIED update and
\* whose duration_seconds is end_time - start_time and >= 0.
C8_SessionRoundTrip ==
    [][ \A p \in Procs :
          ( /\ pc[p] = "update_apply" /\ pc'[p] = "idle"
            /\ frame[p].node.sensor_status = "OCCUPIED"
            /\ frame[p].data.sensor_status = "FREE"
            /\ frame[p].node.active_session_start # None )
          => /\ Len(sessions_collection') = Len(sessions_collection) + 1
             /\ LET s == sessions_collection'[Len(sessions_collection')]
                IN  /\ s.node_id = frame[p].data.node_id
                    /\ s.start_time = frame[p].node.active_session_start
                    /\ s.duration_seconds = s.end_time - s.start_time
                    /\ s.duration_seconds >= 0
      ]_vars

\* C9: a reserve(reserved=true) that is accepted at time now leaves the
\* stored record reserved, not checked in, with reservation_start = now,
\* reservation_expiry = reservation_start + RESERVATION_DURATION and a
\* qr_token that no earlier uuid4() call returned.
C9_ReserveSetsFields ==
    [][ \A p \in Procs :
          ( /\ pc[p] = "reserve_check" /\ pc'[p] = "idle"
            /\ frame[p].req.reserved
            /\ response' = 200 )
          => LET r == parking_collection'[frame[p].req.node_id]
             IN  /\ r.reserved
                 /\ ~r.checked_in
                 /\ r.reservation_start = clock
                 /\ r.reservation_expiry =
                        r.reservation_start + RESERVATION_DURATION
                 /\ r.qr_token # None
                 /\ r.qr_token \notin 1..uuid_counter
      ]_vars

\* C10: a reserve request that finds its space in MAINTENANCE is answered
\* with the error and none of its steps changes the stored records or the
\* session log.
C10_RejectedReserveWritesNothing ==
    [][ \A p \in Procs :
          /\ ( /\ pc[p] = "idle" /\ pc'[p] = "reserve_check"
               /\ frame'[p].node.admin_mode = "MAINTENANCE" )
             => parking_collection' = parking_collection
          /\ ( /\ pc[p] = "reserve_check" /\ pc'[p] = "idle"
               /\ frame[p].node.admin_mode = "MAINTENANCE" )
             => /\ response' = 400
                /\ parking_collection' = parking_collection
                /\ sessions_collection' = sessions_collection
      ]_vars

\* The request answered last was refused, and its space is in MAINTENANCE
\* with the reservation it had before.
C10_Witness ==
    /\ response = 400
    /\ \A p \in Procs : Ready(p)
    /\ \E n \in Stored :
         /\ parking_collection[n].admin_mode = "MAINTENANCE"
         /\ parking_collection[n].reservation_start # None

\* A step of an admin command: the only steps that move neither a worker
\* nor the clock.
AdminStep == pc' = pc /\ frame' = frame /\ clock' = clock

\* C11: setMaintenance and resume for a node_id that has no stored record
\* fail (the answer is not 200), create no record and leave the store as
\* it was.
C11_AdminUnknownNodeFails ==
    [][ \A n \in Nodes \ Stored :
          (admin_maintenance(n) \/ admin_resume(n))
          => /\ response' # 200
             /\ parking_collection' = parking_collection
      ]_vars

\* C12: in every view of a status read, violation is true if and only if
\* admin_mode is NORMAL, reserved is true, checked_in is false and
\* sensor_status is OCCUPIED, that is, if and only if the view's
\* final_status is VIOLATION.
C12_ViewViolationRecomputed ==
    \A p \in Procs : InStatus(p) =>
      \A n \in DOMAIN frame[p].out :
        LET v == frame[p].out[n]
        IN  /\ v.violation <=> ( /\ v.admin_mode = "NORMAL"
                                 /\ v.reserved
                                 /\ ~frame[p].cursor[n].checked_in
                                 /\ v.sensor_status = "OCCUPIED" )
            /\ v.violation <=> (v.final_status = "VIOLATION")

\* The fields of a record that update_node never computes.
OwnedByOthers(r) ==
    <<r.admin_mode, r.reserved, r.reservation_start, r.reservation_expiry,
      r.qr_token, r.checked_in>>

\* C13: a sensor update whose own expiry test did not fire leaves
\* admin_mode and the reservation fields of the stored record as the
\* reserve requests and admin commands acknowledged so far have set them,
\* as it does in both serial orders.
C13_SensorUpdateKeepsAcknowledged ==
    [][ \A p \in Procs :
          ( /\ pc[p] = "update_apply" /\ pc'[p] = "idle"
            /\ ~frame[p].expired )
          => OwnedByOthers(parking_collection'[frame[p].data.node_id])
               = OwnedByOthers(parking_collection[frame[p].data.node_id])
      ]_vars

C15_SessionLogFrame ==
    [][ /\ Len(sessions_collection') >= Len(sessions_collection)
        /\ SubSeq(sessions_collection', 1, Len(sessions_collection))
             = sessions_collection
        /\ sessions_collection' # sessions_collection
             => \E p \in Procs :
                  /\ pc[p] = "update_apply" /\ pc'[p] = "idle"
                  /\ frame[p].node.sensor_status = "OCCUPIED"
                  /\ frame[p].data.sensor_status = "FREE"
                  /\ frame[p].node.active_session_start # None
                  /\ Len(sessions_collection') = Len(sessions_collection) + 1
        /\ \A p \in Procs :
             ( /\ pc[p] = "update_apply" /\ pc'[p] = "idle"
               /\ frame[p].node.sensor_status = frame[p].data.sensor_status )
             => /\ sessions_collection' = sessions_collection
                /\ parking_collection'[frame[p].data.node_id].active_session_start
                     = frame[p].node.active_session_start
      ]_vars

\* Three sensor updates have completed and exactly one of them has logged
\* a session: one closed the session, another read the status it found.
C15_Witness ==
    /\ Quiet
    /\ Len(sessions_collection) = 1
    /\ history_collection = 3
    /\ \E n \in Stored :
         /\ parking_collection[n].sensor_status = "FREE"
         /\ parking_collection[n].active_session_start = None

\* C16: setMaintenance and resume leave sensor_status, distance_cm,
\* active_session_start and the session log unchanged, and a sensor update
\* that then finds the space OCCUPIED and reads FREE logs the session with
\* the start_time it found.
C16_AdminKeepsSensorAndSession ==
    [][ /\ AdminStep
          => /\ sessions_collection' = sessions_collection
             /\ \A n \in Stored :
                  /\ n \in DOMAIN parking_collection'
                  /\ parking_collection'[n].sensor_status
                       = parking_collection[n].sensor_status
                  /\ parking_collection'[n].distance_cm
                       = parking_collection[n].distance_cm
                  /\ parking_collection'[n].active_session_start
                       = parking_collection[n].active_session_start
        /\ \A p \in Procs :
             ( /\ pc[p] = "update_apply" /\ pc'[p] = "idle"
               /\ frame[p].node.sensor_status = "OCCUPIED"
               /\ frame[p].data.sensor_status = "FREE"
               /\ frame[p].node.active_session_start # None )
             => /\ Len(sessions_collection') = Len(sessions_collection) + 1
                /\ sessions_collection'[Len(sessions_collection')].start_time
                     = frame[p].node.active_session_start
      ]_vars

\* Maintenance was set after the only sensor update so far had opened a
\* session: the space is still OCCUPIED with that session open.
C16_Witness ==
    /\ Quiet
    /\ history_collection = 1
    /\ \E n \in Stored :
         LET r == parking_collection[n]
         IN  /\ r.admin_mode = "MAINTENANCE"
             /\ r.sensor_status = "OCCUPIED"
             /\ r.active_session_start # None
             /\ r.last_update > r.active_session_start

\* C17: applying enforce_expiry to a stored record twice in a row, the
\* second time at the same or any later clock readings, leaves the store
\* as the first application left it (every field, last_update included),
\* unless the reservation only comes due between the two; and applying it
\* to a record whose reservation is cleared writes nothing.
C17_ExpiryIdempotent ==
    \A n \in Stored :
      \A t1 \in now_ts(clock) : \A t2 \in now_ts(t1) :
      \A t3 \in now_ts(t2) \cup {t2 + RESERVATION_DURATION} :
      \A t4 \in now_ts(t3) :
        LET node  == parking_collection[n]
            once  == enforce_expiry(parking_collection, node, t1, t2)
            twice == enforce_expiry(once, once[n], t3, t4)
        IN  /\ (expiry_due(node, t1) \/ ~expiry_due(node, t3))
                 => twice = once
            /\ ReservationCleared(node) => once = parking_collection

\* A status read has applied enforce_expiry to a due reservation: the
\* record it loaded was reserved, the stored one is cleared.
C17_Witness ==
    \E p \in Procs :
      /\ InStatus(p)
      /\ \E n \in DOMAIN frame[p].out :
           /\ expiry_due(frame[p].cursor[n], clock)
           /\ n \in Stored
           /\ ReservationCleared(parking_collection[n])
           /\ parking_collection[n].last_update
                >= frame[p].cursor[n].reservation_expiry

\* C18: under every interleaving of sensor updates of one space, the
\* session log never holds two records with the same node_id and the same
\* start_time.
C18_IntervalClosedOnce ==
    \A i, j \in 1..Len(sessions_collection) :
      ( /\ i # j
        /\ sessions_collection[i].node_id = sessions_collection[j].node_id )
      => sessions_collection[i].start_time # sessions_collection[j].start_time

\* C19: with handlers run one at a time, no stored record has admin_mode
\* MAINTENANCE together with reserved = true.
C19_NoReservedMaintenance ==
    \A n \in Stored :
      ~( /\ parking_collection[n].admin_mode = "MAINTENANCE"
         /\ parking_collection[n].reserved )

\* Maintenance was set on a reserved, occupied space and a reserve request
\* has since been refused.
C19_Witness ==
    /\ Quiet
    /\ response = 400
    /\ \E n \in Stored :
         LET r == parking_collection[n]
         IN  /\ r.admin_mode = "MAINTENANCE"
             /\ ~r.reserved
             /\ r.reservation_expiry # None
             /\ r.sensor_status = "OCCUPIED"

\* C20: with handlers run one at a time and a clock that never goes back,
\* the session records of one space do not overlap in log order: each has
\* end_time >= start_time, and each later record of the space starts at or
\* after the end_time of every earlier one.
C20_SessionsInOrder ==
    /\ \A i \in 1..Len(sessions_collection) :
         sessions_collection[i].end_time >= sessions_collection[i].start_time
    /\ \A i, j \in 1..Len(sessions_collection) :
         ( /\ i < j
           /\ sessions_collection[i].node_id = sessions_collection[j].node_id )
         => sessions_collection[j].start_time >= sessions_collection[i].end_time

\* Two sessions of one space are logged, the second one opened after the
\* first had ended and lasting more than a second.
C20_Witness ==
    /\ Len(sessions_collection) = 2
    /\ sessions_collection[1].node_id = sessions_collection[2].node_id
    /\ sessions_collection[2].start_time > sessions_collection[1].end_time
    /\ sessions_collection[2].end_time > sessions_collection[2].start_time

====
